---------------------------- MODULE Spec2Model ----------------------------
(***************************************************************************)
(* RSA key generation and byte-wise stream cipher of src/rsa.c.            *)
(*                                                                         *)
(* Three specifications share the variables below:                         *)
(*   SpecPrimality  primality_test, one witness draw / one evaluation per  *)
(*                  step;                                                  *)
(*   SpecKey        rsa_key_init, generate_key (one loop iteration per     *)
(*                  step), generate_public_key, generate_private_key;      *)
(*   SpecCrypt      rsa_encrypt_file and rsa_decrypt_file, one loop        *)
(*                  iteration per step.                                    *)
(* mpz_t values are integers.  gmp_helper.c and rsa_digest.h are not part  *)
(* of src/; what they provide (mpz_rand_bitlen, mpz_check_binlen,          *)
(* __mpz_urandomm, PRIMALITY_TEST_ACCURACY, NUM_COMPOSITE) is modelled     *)
(* from spec.md sections 2, 4.1, 4.2 and 6.                                *)
(***************************************************************************)
EXTENDS Integers, Sequences, FiniteSets, TLC

VARIABLES
    pt,         \* primality_test call frame: pc, n, rounds, k, t, a, x, ret
    gk,         \* generate_key call frame: pc, len, ret
    key,        \* struct rsa_key: n, p, q, e, d, key_len
    pub,        \* struct rsa_public: n, d, key_len
    priv,       \* struct rsa_private: n, e, key_len
    proj,       \* last projection call: op, ret
    ckey,       \* the (n, e, d) handed to the cipher, with the p, q it came from
    plain,      \* content of the plain file (bytes)
    cfile,      \* content of the encrypted file (characters)
    dfile,      \* content of the decrypted file (bytes)
    enc,        \* rsa_encrypt_file call frame
    dec,        \* rsa_decrypt_file call frame
    feed        \* how cfile was made when it was not written by rsa_encrypt_file

vars == <<pt, gk, key, pub, priv, proj, ckey, plain, cfile, dfile, enc, dec, feed>>

-----------------------------------------------------------------------------
(* Bounds of the model.                                                    *)

\* primality_test is called with k in 1..MaxRounds
MaxRounds == 5
\* generate_key is called with len_key in 0..MaxBitLen
MaxBitLen == 16
\* mpz_rand_bitlen draws among the SampleWidth+1 lowest and the SampleWidth+1
\* highest values of its range (the whole range up to 4 bits)
SampleWidth == 4
\* the plain file holds at most MaxPlainLen bytes
MaxPlainLen == 3
\* a hand-made encrypted file holds at most MaxTokens valid tokens
MaxTokens == 2
\* rsa_decrypt_file is followed until it has written MaxOut bytes
MaxOut == 4

-----------------------------------------------------------------------------
(* errno.h values used by the code.                                        *)

EINVAL == 22
EFAULT == 14
EACCES == 13

-----------------------------------------------------------------------------
(* GMP arithmetic on the integers of the model.                            *)

\* (a * b) mod m, mpz_mul followed by mpz_mod.  mpz_t has no width; the
\* product is formed by doubling when it would leave the range of TLC's
\* integers, with the same result.
RECURSIVE MulMod(_, _, _)
MulMod(a, b, m) ==
    IF a <= 46340 /\ b <= 46340
    THEN (a * b) % m
    ELSE IF b = 0 THEN 0
    ELSE LET h == MulMod(a % m, b \div 2, m)
             dbl == (h + h) % m
         IN  IF b % 2 = 1 THEN (dbl + (a % m)) % m ELSE dbl

\* mpz_powm(out, base, exp, mod): base^exp mod mod, by square and multiply.
RECURSIVE mpz_powm(_, _, _)
mpz_powm(base, exp, mod) ==
    IF exp = 0 THEN 1 % mod
    ELSE LET h == mpz_powm(base, exp \div 2, mod)
             sq == MulMod(h, h, mod)
         IN  IF exp % 2 = 1 THEN MulMod(sq, base % mod, mod) ELSE sq

\* mpz_gcd
RECURSIVE mpz_gcd(_, _)
mpz_gcd(a, b) == IF b = 0 THEN a ELSE mpz_gcd(b, a % b)

\* Extended Euclid: <<g, x>> with a*x == g (mod b)
RECURSIVE ExtEuclid(_, _, _, _)
ExtEuclid(r0, r1, x0, x1) ==
    IF r1 = 0 THEN <<r0, x0>>
    ELSE LET qt == r0 \div r1
         IN  ExtEuclid(r1, r0 - qt * r1, x1, x0 - qt * x1)

\* mpz_invert(d, e, phi): the inverse of e modulo phi in 0..phi-1 when it
\* exists; d is left as it was (old) when it does not.
mpz_invert(old, e, phi) ==
    LET r == ExtEuclid(e % phi, phi, 1, 0)
    IN  IF r[1] = 1 THEN r[2] % phi ELSE old

\* mpz_sizeinbase(n, 2): the number of bits of n, 1 for 0
RECURSIVE BitLen(_)
BitLen(n) == IF n < 2 THEN 1 ELSE 1 + BitLen(n \div 2)

\* mpz_jacobi(a, n) for odd n > 0
RECURSIVE mpz_jacobi(_, _)
mpz_jacobi(a, n) ==
    IF n = 1 THEN 1
    ELSE LET r == a % n
         IN  IF r = 0 THEN 0
             ELSE IF r % 2 = 0
             THEN LET s == IF n % 8 = 3 \/ n % 8 = 5 THEN -1 ELSE 1
                  IN  s * mpz_jacobi(r \div 2, n)
             ELSE LET s == IF r % 4 = 3 /\ n % 4 = 3 THEN -1 ELSE 1
                  IN  s * mpz_jacobi(n, r)

-----------------------------------------------------------------------------
(* primality_test (src/rsa.c 583-634; 136-187 is the same text).           *)

\* (unsigned long)-1, the value mpz_set_ui stores for a Jacobi symbol of -1.
\* The program's value is 2^64 - 1 (2^32 - 1 where long has 32 bits); the
\* model keeps the largest integer TLC represents, which like it is
\* positive, differs from -1 and exceeds every modulus of the model.
ULONG_MAX == 2147483647

\* rsa_digest.h, not in src/: the return value "composite" (0 in the
\* function's comment) and the number of rounds generate_n_p_q asks for.
NUM_COMPOSITE == 0
PRIMALITY_TEST_ACCURACY == 5

\* __mpz_urandomm(a, t): uniform below the bound t
Urandomm(t) == 0 .. (t - 1)

\* the values a can take after __mpz_urandomm(a, t); mpz_add_ui(a, a, 2)
Witnesses(t) == { r + 2 : r \in Urandomm(t) }

\* mpz_set_ui(x, (uint64_t)mpz_jacobi(a, n))
JacobiAsUlong(j) == IF j < 0 THEN ULONG_MAX - ((-j) - 1) ELSE j

\* The body of one trial after a has been drawn: the values of x, t and a it
\* leaves and whether it returns 1.
Trial(n, t, a) ==
    LET x0 == JacobiAsUlong(mpz_jacobi(a, n))
        x1 == IF x0 = -1 THEN n - 1 ELSE x0
    IN  IF x1 # 0
        THEN LET t1 == (n - 1) \div 2
                 a1 == mpz_powm(a, t1, n)
             IN  [x |-> x1, t |-> t1, a |-> a1, hit |-> (a1 = x1)]
        ELSE [x |-> x1, t |-> t, a |-> a, hit |-> FALSE]

\* The checks before the loop: "ret0", "ret1" or "loop"
PtEntry(n) ==
    IF n = 1 THEN "ret0"
    ELSE IF n = 2 THEN "ret1"
    ELSE IF n % 2 = 0 THEN "ret0"
    ELSE "loop"

\* The values the loop can return from the state (t, k), over every draw.
RECURSIVE PtLoop(_, _, _)
PtLoop(n, t, k) ==
    IF k = 0 THEN {0}
    ELSE LET outs == { Trial(n, t, a) : a \in Witnesses(t) }
             next == { o.t : o \in { o2 \in outs : ~o2.hit } }
         IN  (IF \E o \in outs : o.hit THEN {1} ELSE {})
             \cup UNION { PtLoop(n, t2, k - 1) : t2 \in next }

\* primality_test(n, k) as a call: the set of values it can return
primality_test(n, k) ==
    CASE PtEntry(n) = "ret0" -> {0}
      [] PtEntry(n) = "ret1" -> {1}
      [] OTHER -> PtLoop(n, n - 2, k)

PtIdle == [pc |-> "idle", n |-> 0, rounds |-> 0, k |-> 0, t |-> 0, a |-> 0,
           x |-> 0, ret |-> 0]

\* the candidates primality_test is called with in SpecPrimality
PtInputs == {0, 1, 2, 3, 4, 5, 7, 9, 11, 15, 97, 100, 561, 7919}

\* mpz_inits, the three checks before the loop, mpz_sub_ui(t, n, 2)
PtCall(n, k) ==
    /\ pt.pc \in {"idle", "done"}
    /\ pt' = CASE PtEntry(n) = "ret0" ->
                    [PtIdle EXCEPT !.pc = "done", !.n = n, !.rounds = k,
                                   !.k = k, !.ret = 0]
               [] PtEntry(n) = "ret1" ->
                    [PtIdle EXCEPT !.pc = "done", !.n = n, !.rounds = k,
                                   !.k = k, !.ret = 1]
               [] OTHER ->
                    [PtIdle EXCEPT !.pc = "loop", !.n = n, !.rounds = k,
                                   !.k = k, !.t = n - 2]
    /\ UNCHANGED <<gk, key, pub, priv, proj, ckey, plain, cfile, dfile, enc,
                   dec, feed>>

\* while (k-- > 0): the draw of a
PtDraw ==
    /\ pt.pc = "loop"
    /\ pt.k > 0
    /\ \E a \in Witnesses(pt.t) :
          pt' = [pt EXCEPT !.pc = "drawn", !.k = pt.k - 1, !.a = a]
    /\ UNCHANGED <<gk, key, pub, priv, proj, ckey, plain, cfile, dfile, enc,
                   dec, feed>>

\* the rest of the loop body
PtEval ==
    /\ pt.pc = "drawn"
    /\ LET o == Trial(pt.n, pt.t, pt.a)
       IN  pt' = [pt EXCEPT !.x = o.x, !.t = o.t, !.a = o.a,
                            !.pc = IF o.hit THEN "done" ELSE "loop",
                            !.ret = IF o.hit THEN 1 ELSE pt.ret]
    /\ UNCHANGED <<gk, key, pub, priv, proj, ckey, plain, cfile, dfile, enc,
                   dec, feed>>

\* the loop ends with k exhausted: return 0
PtExhausted ==
    /\ pt.pc = "loop"
    /\ pt.k = 0
    /\ pt' = [pt EXCEPT !.pc = "done", !.ret = 0]
    /\ UNCHANGED <<gk, key, pub, priv, proj, ckey, plain, cfile, dfile, enc,
                   dec, feed>>

-----------------------------------------------------------------------------
(* Key generation (src/rsa.c 645-764) and the projections (773-802).       *)

\* 2^k
RECURSIVE Pow2(_)
Pow2(k) == IF k = 0 THEN 1 ELSE 2 * Pow2(k - 1)

\* mpz_rand_bitlen(p, bits): a value of exactly `bits` bits, top bit set.
\* The draws of the model are the values within SampleWidth of either end
\* of that range.
mpz_rand_bitlen(bits) ==
    LET lo == Pow2(bits - 1)
        hi == Pow2(bits) - 1
    IN  { v \in lo .. hi : v - lo <= SampleWidth \/ hi - v <= SampleWidth }

\* mpz_check_binlen(n, len): 0 when n has exactly len bits, nonzero otherwise
mpz_check_binlen(n, len) == IF BitLen(n) = len THEN 0 ELSE 1

\* Every call primality_test(c, PRIMALITY_TEST_ACCURACY) generate_n_p_q can
\* make, with the set of values the call can return, evaluated once.
PtCalls ==
    { <<c, primality_test(c, PRIMALITY_TEST_ACCURACY)>> :
        c \in UNION { mpz_rand_bitlen(b) : b \in 1 .. (MaxBitLen \div 2) } }

PtReturns(c) == (CHOOSE e \in PtCalls : e[1] = c)[2]

\* the value mpz_set_ui(e, 65537) stores
E65537 == 65537

\* The value an object holds that no statement has written yet: key_len of a
\* struct the *_init functions have initialised.  It stands for any value.
Indeterminate == -1

\* rsa_key_init, rsa_public_key_init, rsa_private_key_init: mpz_inits sets
\* every mpz_t to 0 and leaves key_len alone.
rsa_key_init ==
    [n |-> 0, p |-> 0, q |-> 0, e |-> 0, d |-> 0, key_len |-> Indeterminate]
rsa_public_key_init == [n |-> 0, d |-> 0, key_len |-> Indeterminate]
rsa_private_key_init == [n |-> 0, e |-> 0, key_len |-> Indeterminate]

GkIdle == [pc |-> "idle", len |-> 0, ret |-> 0, diag |-> FALSE]
ProjIdle == [op |-> "none", ret |-> 0]

\* The argument checks of generate_n_p_q (647-651); the pointers are those
\* of the key's members and are never null.
generate_n_p_q_args(len_n) ==
    IF len_n = 0 THEN -EINVAL
    ELSE IF len_n % 2 # 0 THEN -EINVAL
    ELSE 0

\* generate_e_d inverting e modulo n = p*q instead of phi, and so without
\* the gcd check on phi
generate_e_d_ModN(e_old, d_old, p, q) ==
    LET phi == (p - 1) * (q - 1)
        e == E65537
        d == mpz_invert(d_old, e, p * q)
    IN  [ret |-> 0, e |-> e, d |-> d, diag |-> (MulMod(e, d, phi) # 1)]

\* generate_e_d(e, d, p, q): the return value, e and d as it leaves them and
\* whether the self-check printed its diagnostic.
generate_e_d(e_old, d_old, p, q) ==
    LET phi == (p - 1) * (q - 1)
        e == E65537
        t == mpz_gcd(e, phi)
    IN  IF t # 1
        THEN [ret |-> -EFAULT, e |-> e, d |-> d_old, diag |-> FALSE]
        ELSE LET d == mpz_invert(d_old, e, phi)
             IN  [ret |-> 0, e |-> e, d |-> d,
                  diag |-> (MulMod(e, d, phi) # 1)]

\* generate_key(NULL, len_key)
GkCallNull(len) ==
    /\ gk.pc = "idle"
    /\ gk' = [gk EXCEPT !.pc = "done", !.len = len, !.ret = -EINVAL]
    /\ UNCHANGED <<pt, key, pub, priv, proj, ckey, plain, cfile, dfile, enc,
                   dec, feed>>

\* generate_key(key, len_key) up to the first loop of generate_n_p_q: a
\* failure of generate_n_p_q is returned as -EFAULT.
GkCall(len) ==
    /\ gk.pc = "idle"
    /\ key' = [key EXCEPT !.key_len = len]
    /\ gk' = IF generate_n_p_q_args(len) # 0
             THEN [gk EXCEPT !.pc = "done", !.len = len, !.ret = -EFAULT]
             ELSE [gk EXCEPT !.pc = "outer", !.len = len]
    /\ UNCHANGED <<pt, pub, priv, proj, ckey, plain, cfile, dfile, enc, dec,
                   feed>>

\* 654-659: two draws, their product, the check of its length
GkOuter ==
    /\ gk.pc = "outer"
    /\ \E p \in mpz_rand_bitlen(gk.len \div 2),
          q \in mpz_rand_bitlen(gk.len \div 2) :
          /\ key' = [key EXCEPT !.p = p, !.q = q, !.n = p * q]
          /\ gk' = IF mpz_check_binlen(p * q, gk.len) # 0
                   THEN gk
                   ELSE [gk EXCEPT !.pc = "ploop"]
    /\ UNCHANGED <<pt, pub, priv, proj, ckey, plain, cfile, dfile, enc, dec,
                   feed>>

\* 661-669: one draw of p and its primality test
GkPLoop ==
    /\ gk.pc = "ploop"
    /\ \E p \in mpz_rand_bitlen(gk.len \div 2) :
       \E r \in PtReturns(p) :
          /\ key' = [key EXCEPT !.p = p]
          /\ gk' = IF r = NUM_COMPOSITE THEN gk ELSE [gk EXCEPT !.pc = "qloop"]
    /\ UNCHANGED <<pt, pub, priv, proj, ckey, plain, cfile, dfile, enc, dec,
                   feed>>

\* 671-679: one draw of q and its primality test
GkQLoop ==
    /\ gk.pc = "qloop"
    /\ \E q \in mpz_rand_bitlen(gk.len \div 2) :
       \E r \in PtReturns(q) :
          /\ key' = [key EXCEPT !.q = q]
          /\ gk' = IF r = NUM_COMPOSITE THEN gk ELSE [gk EXCEPT !.pc = "mul"]
    /\ UNCHANGED <<pt, pub, priv, proj, ckey, plain, cfile, dfile, enc, dec,
                   feed>>

\* GkMulCheck without the check of the length of n (683)
GkMulCheck_NoLengthCheck ==
    /\ gk.pc = "mul"
    /\ key' = [key EXCEPT !.n = key.p * key.q]
    /\ gk' = [gk EXCEPT !.pc = "e_d"]
    /\ UNCHANGED <<pt, pub, priv, proj, ckey, plain, cfile, dfile, enc, dec,
                   feed>>

\* 681-683: n = p * q; leave the loop when n has len bits, else start over
GkMulCheck ==
    /\ gk.pc = "mul"
    /\ key' = [key EXCEPT !.n = key.p * key.q]
    /\ gk' = IF mpz_check_binlen(key.p * key.q, gk.len) = 0
             THEN [gk EXCEPT !.pc = "e_d"]
             ELSE [gk EXCEPT !.pc = "outer"]
    /\ UNCHANGED <<pt, pub, priv, proj, ckey, plain, cfile, dfile, enc, dec,
                   feed>>

\* 758-763: generate_e_d and the return of generate_key
GkExponents ==
    /\ gk.pc = "e_d"
    /\ LET r == generate_e_d(key.e, key.d, key.p, key.q)
       IN  /\ key' = [key EXCEPT !.e = r.e, !.d = r.d]
           /\ gk' = [gk EXCEPT !.pc = "done", !.diag = r.diag,
                               !.ret = IF r.ret # 0 THEN -EFAULT ELSE 0]
    /\ UNCHANGED <<pt, pub, priv, proj, ckey, plain, cfile, dfile, enc, dec,
                   feed>>

\* An mpz_t member is an array: in a condition it is its address, which is
\* never null, whatever the number it holds.
MpzMemberIsNull(value) == FALSE

\* generate_public_key(key, pkey); keyNull: the call passes key = NULL
GeneratePublicKey(keyNull) ==
    /\ gk.pc \in {"idle", "done"}
    /\ IF keyNull \/ MpzMemberIsNull(key.n) \/ MpzMemberIsNull(key.d)
       THEN /\ proj' = [op |-> "public", ret |-> -EINVAL]
            /\ pub' = pub
       ELSE /\ proj' = [op |-> "public", ret |-> 0]
            /\ pub' = [n |-> key.n, d |-> key.d, key_len |-> key.key_len]
    /\ UNCHANGED <<pt, gk, key, priv, ckey, plain, cfile, dfile, enc, dec,
                   feed>>

\* generate_private_key(key, pkey)
GeneratePrivateKey(keyNull) ==
    /\ gk.pc \in {"idle", "done"}
    /\ IF keyNull \/ MpzMemberIsNull(key.n) \/ MpzMemberIsNull(key.e)
       THEN /\ proj' = [op |-> "private", ret |-> -EINVAL]
            /\ priv' = priv
       ELSE /\ proj' = [op |-> "private", ret |-> 0]
            /\ priv' = [n |-> key.n, e |-> key.e, key_len |-> key.key_len]
    /\ UNCHANGED <<pt, gk, key, pub, ckey, plain, cfile, dfile, enc, dec,
                   feed>>

-----------------------------------------------------------------------------
(* The stream cipher (src/rsa.c 812-925).                                  *)

\* rsa_docrypt(out, in, e, n)
rsa_docrypt(in, e, n) == mpz_powm(in, e, n)

HexDigits ==
    <<"0", "1", "2", "3", "4", "5", "6", "7", "8", "9",
      "a", "b", "c", "d", "e", "f">>
UpperHexDigits ==
    <<"0", "1", "2", "3", "4", "5", "6", "7", "8", "9",
      "A", "B", "C", "D", "E", "F">>

\* isxdigit, isspace
IsXDigit(c) == \E i \in 1 .. 16 : HexDigits[i] = c \/ UpperHexDigits[i] = c
IsSpace(c) == c \in {" ", "\t", "\n", "\r", "\f"}

DigitVal(c) ==
    (CHOOSE i \in 1 .. 16 : HexDigits[i] = c \/ UpperHexDigits[i] = c) - 1

\* "%Zx": the digits of v in base 16, lower case, no prefix, "0" for 0
RECURSIVE ToHex(_)
ToHex(v) ==
    IF v < 16 THEN <<HexDigits[v + 1]>>
    ELSE ToHex(v \div 16) \o <<HexDigits[(v % 16) + 1]>>

\* EncToken with the format "%Zx": no line terminator after the token
EncToken_NoTerminator(v) == ToHex(v)

\* gmp_fprintf(fcrypt, "%Zx\n", dcrypt): the characters written
EncToken(v) == ToHex(v) \o <<"\n">>

\* the number text[from .. to] denotes in base 16
RECURSIVE HexValue(_, _, _)
HexValue(text, from, to) ==
    IF to < from THEN 0
    ELSE 16 * HexValue(text, from, to - 1) + DigitVal(text[to])

\* the position after the white space that starts at pos (pos characters of
\* text have been read)
RECURSIVE SkipWhite(_, _)
SkipWhite(text, pos) ==
    IF pos < Len(text) /\ IsSpace(text[pos + 1])
    THEN SkipWhite(text, pos + 1)
    ELSE pos

\* the position after the hexadecimal digits that start at pos
RECURSIVE ScanDigits(_, _)
ScanDigits(text, pos) ==
    IF pos < Len(text) /\ IsXDigit(text[pos + 1])
    THEN ScanDigits(text, pos + 1)
    ELSE pos

\* gmp_fscanf(fencry, "%Zx", dencry) with pos characters of the file read:
\* white space is skipped, then digits are read up to the first character
\* that is none, which is pushed back.  Reading at the end of the file sets
\* the end-of-file indicator, and pushing back EOF leaves it set.  fields is
\* the return value: 1, 0 (no digit: dencry is not assigned, nothing but
\* white space is consumed) or -1 (end of file before any digit).
\* A token with a sign is not among the inputs of the model.
gmp_fscanf_Zx(text, pos, dencry) ==
    LET p1 == SkipWhite(text, pos)
        p2 == ScanDigits(text, p1)
    IN  IF p1 = Len(text)
        THEN [pos |-> p1, eof |-> TRUE, fields |-> -1, dencry |-> dencry]
        ELSE IF p2 = p1
        THEN [pos |-> p1, eof |-> FALSE, fields |-> 0, dencry |-> dencry]
        ELSE [pos |-> p2, eof |-> (p2 = Len(text)), fields |-> 1,
              dencry |-> HexValue(text, p1 + 1, p2)]

\* (uint8_t)mpz_get_ui(ddecry)
LowByte(v) == v % 256

EncIdle == [pc |-> "idle", pos |-> 0, eof |-> FALSE, ret |-> 0, which |-> "e"]
DecIdle == [pc |-> "idle", pos |-> 0, eof |-> FALSE, dencry |-> 0, ret |-> 0,
            which |-> "e"]

\* feed when the encrypted file is the one rsa_encrypt_file writes
FeedWritten == [kind |-> "written", toks |-> <<>>, term |-> TRUE, bad |-> FALSE]

\* the exponent a call is given: key e or key d
Exponent(which) == IF which = "e" THEN ckey.e ELSE ckey.d

\* rsa_encrypt_file up to its loop (840-855).  opens: whether both files can
\* be opened, or which fopen fails.  Opening the encrypted file for writing
\* empties it.
EncCall(which, opens) ==
    /\ enc.pc = "idle"
    /\ dec.pc = "idle"
    /\ \/ /\ opens = "noread"
          /\ enc' = [enc EXCEPT !.pc = "done", !.which = which, !.ret = -EACCES]
          /\ cfile' = cfile
       \/ /\ opens = "nowrite"
          /\ enc' = [enc EXCEPT !.pc = "done", !.which = which, !.ret = -EACCES]
          /\ cfile' = cfile
       \/ /\ opens = "ok"
          /\ enc' = [enc EXCEPT !.pc = "loop", !.which = which]
          /\ cfile' = <<>>
    /\ feed' = IF opens = "ok" THEN FeedWritten ELSE feed
    /\ UNCHANGED <<pt, gk, key, pub, priv, proj, ckey, plain, dfile, dec>>

\* one iteration of the loop 857-868, and 870-876 when fgetc returns EOF
EncStep ==
    /\ enc.pc = "loop"
    /\ IF enc.eof \/ enc.pos = Len(plain)
       THEN /\ enc' = [enc EXCEPT !.pc = "done", !.eof = TRUE, !.ret = 0]
            /\ cfile' = cfile
       ELSE LET ch == plain[enc.pos + 1]
                dcrypt == rsa_docrypt(ch, Exponent(enc.which), ckey.n)
            IN  /\ enc' = [enc EXCEPT !.pos = enc.pos + 1]
                /\ cfile' = cfile \o EncToken(dcrypt)
    /\ UNCHANGED <<pt, gk, key, pub, priv, proj, ckey, plain, dfile, dec, feed>>

\* rsa_decrypt_file up to its loop (891-906)
DecCall(which, opens) ==
    /\ dec.pc = "idle"
    /\ enc.pc \in {"idle", "done"}
    /\ \/ /\ opens = "noread"
          /\ dec' = [dec EXCEPT !.pc = "done", !.which = which, !.ret = -EACCES]
          /\ dfile' = dfile
       \/ /\ opens = "nowrite"
          /\ dec' = [dec EXCEPT !.pc = "done", !.which = which, !.ret = -EACCES]
          /\ dfile' = dfile
       \/ /\ opens = "ok"
          /\ dec' = [dec EXCEPT !.pc = "loop", !.which = which]
          /\ dfile' = <<>>
    /\ UNCHANGED <<pt, gk, key, pub, priv, proj, ckey, plain, cfile, enc, feed>>

\* one iteration of the loop 908-916, and 918-924 when the loop is left
DecStep ==
    /\ dec.pc = "loop"
    /\ Len(dfile) < MaxOut
    /\ IF dec.eof
       THEN /\ dec' = [dec EXCEPT !.pc = "done", !.ret = 0]
            /\ dfile' = dfile
       ELSE LET s == gmp_fscanf_Zx(cfile, dec.pos, dec.dencry)
                ddecry == rsa_docrypt(s.dencry, Exponent(dec.which), ckey.n)
            IN  IF s.eof
                THEN /\ dec' = [dec EXCEPT !.pc = "done", !.pos = s.pos,
                                           !.eof = TRUE,
                                           !.dencry = s.dencry, !.ret = 0]
                     /\ dfile' = dfile
                ELSE /\ dec' = [dec EXCEPT !.pos = s.pos, !.dencry = s.dencry]
                     /\ dfile' = Append(dfile, LowByte(ddecry))
    /\ UNCHANGED <<pt, gk, key, pub, priv, proj, ckey, plain, cfile, enc, feed>>

-----------------------------------------------------------------------------
(* Specifications.                                                         *)

CKeyIdle == [n |-> 0, e |-> 0, d |-> 0, p |-> 0, q |-> 0]
\* the key a (p, q) gives with the exponents generate_e_d derives
CKeyOf(pq) ==
    LET r == generate_e_d(0, 0, pq[1], pq[2])
    IN  [n |-> pq[1] * pq[2], e |-> r.e, d |-> r.d, p |-> pq[1], q |-> pq[2]]

InitPrimality ==
    /\ pt = PtIdle
    /\ gk = GkIdle
    /\ key = rsa_key_init
    /\ pub = rsa_public_key_init
    /\ priv = rsa_private_key_init
    /\ proj = ProjIdle
    /\ ckey = CKeyIdle
    /\ plain = <<>>
    /\ cfile = <<>>
    /\ dfile = <<>>
    /\ enc = EncIdle
    /\ dec = DecIdle
    /\ feed = "none"

NextPrimality ==
    \/ \E n \in PtInputs, k \in 1 .. MaxRounds : PtCall(n, k)
    \/ PtDraw
    \/ PtEval
    \/ PtExhausted

SpecPrimality == InitPrimality /\ [][NextPrimality]_vars

InitKey == InitPrimality

NextKey ==
    \/ \E len \in 0 .. MaxBitLen : GkCall(len)
    \/ \E len \in 0 .. MaxBitLen : GkCallNull(len)
    \/ GkOuter
    \/ GkPLoop
    \/ GkQLoop
    \/ GkMulCheck
    \/ GkExponents
    \/ \E keyNull \in BOOLEAN : GeneratePublicKey(keyNull)
    \/ \E keyNull \in BOOLEAN : GeneratePrivateKey(keyNull)

SpecKey == InitKey /\ [][NextKey]_vars

\* Fair sampling in the loops of generate_n_p_q (653-686).  Every draw is an
\* independent sample, so an outcome that is possible again and again is
\* eventually the one drawn: a pair p, q whose product has len_n bits (654-659),
\* a p that passes primality_test and that some passing q completes to a
\* modulus of len_n bits (661-669), and such a q for the p at hand (671-683).
\* Inside the p loop and the q loop a candidate that passes primality_test is
\* eventually drawn, when there is one.
PassingPairDrawn == GkOuter /\ gk'.pc = "ploop"

PassingPDrawn == GkPLoop /\ gk'.pc = "qloop"

PassingQDrawn == GkQLoop /\ gk'.pc = "mul"

CompletableP(p, len_n) ==
    \E q \in mpz_rand_bitlen(len_n \div 2) :
        /\ PtReturns(q) # {NUM_COMPOSITE}
        /\ mpz_check_binlen(p * q, len_n) = 0

CompletablePDrawn ==
    GkPLoop /\ gk'.pc = "qloop" /\ CompletableP(key'.p, gk.len)

CompletingQDrawn ==
    GkQLoop /\ gk'.pc = "mul" /\ mpz_check_binlen(key.p * key'.q, gk.len) = 0

FairSampling ==
    /\ SF_vars(PassingPairDrawn)
    /\ SF_vars(CompletablePDrawn)
    /\ SF_vars(CompletingQDrawn)
    /\ WF_vars(PassingPDrawn)
    /\ WF_vars(PassingQDrawn)
    /\ WF_vars(GkMulCheck)
    /\ WF_vars(GkExponents)

SpecKeyFair == InitKey /\ [][NextKey]_vars /\ FairSampling

\* The (p, q) of the keys the cipher is run with.  Each is a pair generate_key
\* returns (CryptPairsReturned is reachable under SpecKey for each of them).
CryptPairs == { <<19, 29>>, <<17, 31>>, <<29, 29>>, <<11, 13>> }

\* the bytes of the plain files
BytePool == {0, 29, 65, 255}

\* the valid tokens of the hand-made encrypted files
TokenPool == { <<"0">>, <<"4", "1">>, <<"1", "f", "f">> }

\* the sequences over S of length at most n
RECURSIVE SeqsUpTo(_, _)
SeqsUpTo(S, n) ==
    IF n = 0 THEN { <<>> }
    ELSE LET shorter == SeqsUpTo(S, n - 1)
         IN  shorter \cup { Append(q, x) : q \in shorter, x \in S }

\* tokens joined: each token but the last is followed by sep, the last one
\* by sep when term holds
RECURSIVE Joined(_, _, _)
Joined(toks, sep, term) ==
    IF toks = <<>> THEN <<>>
    ELSE IF Len(toks) = 1
    THEN toks[1] \o (IF term THEN <<sep>> ELSE <<>>)
    ELSE toks[1] \o <<sep>> \o Joined(Tail(toks), sep, term)

\* A hand-made encrypted file: valid tokens, and after them (bad) the token
\* "zz", which is no hexadecimal number.
Crafted(toks, sep, term, bad) ==
    IF bad
    THEN Joined(toks, sep, TRUE) \o <<"z", "z">> \o (IF term THEN <<sep>> ELSE <<>>)
    ELSE Joined(toks, sep, term)

InitCrypt ==
    /\ pt = PtIdle
    /\ gk = GkIdle
    /\ key = rsa_key_init
    /\ pub = rsa_public_key_init
    /\ priv = rsa_private_key_init
    /\ proj = ProjIdle
    /\ ckey \in { CKeyOf(pq) : pq \in CryptPairs }
    /\ dfile = <<>>
    /\ enc = EncIdle
    /\ dec = DecIdle
    /\ \/ /\ plain \in SeqsUpTo(BytePool, MaxPlainLen)
          /\ cfile = <<>>
          /\ feed = FeedWritten
       \/ /\ plain = <<>>
          /\ \E toks \in SeqsUpTo(TokenPool, MaxTokens),
                sep \in {"\n", " "}, term \in BOOLEAN, bad \in BOOLEAN :
                /\ cfile = Crafted(toks, sep, term, bad)
                /\ feed = [kind |-> "crafted", toks |-> toks, term |-> term,
                           bad |-> bad]

NextCrypt ==
    \/ \E which \in {"e", "d"}, opens \in {"ok", "noread", "nowrite"} :
          EncCall(which, opens)
    \/ EncStep
    \/ \E which \in {"e", "d"}, opens \in {"ok", "noread", "nowrite"} :
          DecCall(which, opens)
    \/ DecStep

SpecCrypt == InitCrypt /\ [][NextCrypt]_vars

-----------------------------------------------------------------------------
(* Claims about key generation, checked under SpecKey.                     *)

\* generate_key has returned 0
KeyReturned == gk.pc = "done" /\ gk.ret = 0

IsPrime(n) == n >= 2 /\ \A f \in 2 .. (n - 1) : n % f # 0

\* C1: for every key generate_key returns and every x in [0, n),
\* rsa_docrypt(rsa_docrypt(x, e, n), d, n) = x, and likewise with e and d
\* swapped.
C1_RoundTripEveryKey ==
    KeyReturned =>
        \A x \in 0 .. (key.n - 1) :
            /\ mpz_powm(mpz_powm(x, key.e, key.n), key.d, key.n) = x
            /\ mpz_powm(mpz_powm(x, key.d, key.n), key.e, key.n) = x

\* C3: whenever generate_key returns success, n = p*q, n has exactly
\* len_key bits and p and q have exactly len_key/2 bits each (stated for
\* every even length that returns, 16 among them).
C3_ExactBitLength ==
    KeyReturned =>
        /\ key.n = key.p * key.q
        /\ BitLen(key.n) = gk.len
        /\ BitLen(key.p) = gk.len \div 2
        /\ BitLen(key.q) = gk.len \div 2

\* a 16-bit key has been returned
C3_Witness == KeyReturned /\ gk.len = 16 /\ BitLen(key.n) = 16

\* C4: whenever generate_key returns success, e = 65537,
\* gcd(e, (p-1)(q-1)) = 1 and (e*d) mod ((p-1)(q-1)) = 1, and the self-check
\* of generate_e_d has not printed its diagnostic.
C4_ExponentsInverse ==
    KeyReturned =>
        LET phi == (key.p - 1) * (key.q - 1)
        IN  /\ key.e = 65537
            /\ mpz_gcd(key.e, phi) = 1
            /\ MulMod(key.e, key.d, phi) = 1
            /\ ~gk.diag

\* a key whose d differs from e modulo phi has been returned
C4_Witness ==
    KeyReturned /\ key.d > 1
    /\ key.d # key.e % ((key.p - 1) * (key.q - 1))

\* generate_key has returned the key of a pair the cipher is run with
CryptPairsReturned(pq) == KeyReturned /\ key.p = pq[1] /\ key.q = pq[2]

\* C5: in every key generate_key returns, p and q are both prime.
C5_FactorsPrime == KeyReturned => IsPrime(key.p) /\ IsPrime(key.q)

\* C6: for every len_key that is zero or odd, generate_key (given a key)
\* fails with -EINVAL, and no candidate has been drawn.
C6_InvalidLengthIsEINVAL ==
    (gk.pc = "done" /\ key.key_len = gk.len
        /\ (gk.len = 0 \/ gk.len % 2 = 1))
    => (gk.ret = -EINVAL /\ key.p = 0 /\ key.q = 0 /\ key.n = 0)

\* C10: generate_public_key (generate_private_key) fails with -EINVAL and
\* leaves the destination unchanged whenever the source key's n or d (e) is
\* zero; otherwise it copies n, the exponent and the bit length and leaves
\* the source key unchanged.
C10_ProjectionRejectsUnset ==
    [][ /\ (GeneratePublicKey(FALSE) /\ proj'.op = "public" =>
              IF key.n = 0 \/ key.d = 0
              THEN proj'.ret = -EINVAL /\ pub' = pub
              ELSE /\ proj'.ret = 0
                   /\ pub' = [n |-> key.n, d |-> key.d,
                              key_len |-> key.key_len]
                   /\ key' = key)
        /\ (GeneratePrivateKey(FALSE) /\ proj'.op = "private" =>
              IF key.n = 0 \/ key.e = 0
              THEN proj'.ret = -EINVAL /\ priv' = priv
              ELSE /\ proj'.ret = 0
                   /\ priv' = [n |-> key.n, e |-> key.e,
                               key_len |-> key.key_len]
                   /\ key' = key) ]_vars

\* C12: for every nonzero even bitLength, generate_key eventually returns
\* when the sampling is fair: once generate_n_p_q has entered its loops, the
\* call reaches its return.
C12_GenerateKeyReturns ==
    (gk.pc = "outer" /\ gk.len > 0 /\ gk.len % 2 = 0) ~> (gk.pc = "done")

-----------------------------------------------------------------------------
(* Claims about primality_test, checked under SpecPrimality.               *)

\* C7: primality_test(n, k) with k >= 5 returns 1 for every n in
\* {2, 3, 5, 7, 11, 97, 7919}, whatever witnesses are drawn, and 0 for every
\* n < 2 and every even n > 2.
C7_PrimesAlwaysAccepted ==
    (pt.pc = "done" /\ pt.rounds >= 5) =>
        /\ pt.n \in {2, 3, 5, 7, 11, 97, 7919} => pt.ret = 1
        /\ (pt.n < 2 \/ (pt.n > 2 /\ pt.n % 2 = 0)) => pt.ret = 0

\* C11: in every trial of primality_test on an odd n > 2, the first one and
\* every later one of the call, the witness a is drawn from exactly the range
\* [2, n-1]: the values the next draw can give are those, all of them and no
\* others, whatever trials went before.
C11_WitnessRangeFixed ==
    (pt.pc = "loop" /\ pt.k > 0 /\ pt.n > 2 /\ pt.n % 2 = 1)
        => Witnesses(pt.t) = 2 .. (pt.n - 1)

-----------------------------------------------------------------------------
(* Claims about the stream cipher, checked under SpecCrypt.                *)

\* rsa_encrypt_file has returned 0 and, after it, rsa_decrypt_file has
\* returned 0 on the file it wrote, with the other exponent of the key
RoundTripDone ==
    /\ enc.pc = "done" /\ enc.ret = 0
    /\ dec.pc = "done" /\ dec.ret = 0
    /\ enc.which # dec.which

\* e and d are inverses modulo (p-1)(q-1)
CKeyInverse ==
    MulMod(ckey.e, ckey.d, (ckey.p - 1) * (ckey.q - 1)) = 1

\* C2 as claimed: for any byte sequence B and any n = p*q > 255 with
\* (e*d) mod ((p-1)(q-1)) = 1, rsa_encrypt_file with one exponent and then
\* rsa_decrypt_file with the other writes exactly B.
C2_RoundTripAnyModulus ==
    (RoundTripDone /\ ckey.n > 255 /\ CKeyInverse) => dfile = plain

\* C2 as amended: the same for p and q distinct primes.
C2_RoundTripDistinctPrimes ==
    (RoundTripDone /\ ckey.n > 255 /\ CKeyInverse
        /\ IsPrime(ckey.p) /\ IsPrime(ckey.q) /\ ckey.p # ckey.q)
    => dfile = plain

\* a three-byte file has made the round trip under a key of distinct primes
C2_Witness ==
    /\ RoundTripDone /\ ckey.n > 255 /\ CKeyInverse
    /\ IsPrime(ckey.p) /\ IsPrime(ckey.q) /\ ckey.p # ckey.q
    /\ Len(plain) = 3 /\ plain[2] = 65 /\ plain[3] = 255
    /\ dfile = plain

\* the bytes the valid tokens of a hand-made file decode to
Decoded(toks, which) ==
    [i \in 1 .. Len(toks) |->
        LowByte(rsa_docrypt(HexValue(toks[i], 1, Len(toks[i])),
                            Exponent(which), ckey.n))]

\* C8: on N valid tokens followed by a non-hexadecimal token,
\* rsa_decrypt_file writes no more than the N decoded bytes, and when it
\* has returned it has written exactly those and returned 0.
C8_MalformedTokenEndsStream ==
    (feed.kind = "crafted" /\ feed.bad /\ dec.pc # "idle" /\ dec.ret = 0) =>
        /\ Len(dfile) <= Len(feed.toks)
        /\ dec.pc = "done" => dfile = Decoded(feed.toks, dec.which)

\* C9: on M >= 0 valid tokens separated by white space, the last one
\* followed by a terminator or not, rsa_decrypt_file writes exactly the M
\* bytes LowByte(token_i ^ exponent mod modulus), in order.
C9_EveryTokenDecoded ==
    (feed.kind = "crafted" /\ ~feed.bad /\ dec.pc = "done" /\ dec.ret = 0) =>
        dfile = Decoded(feed.toks, dec.which)

=============================================================================
